---- MODULE Spec2Model ----
(***************************************************************************)
(* Model of the write-ahead log of node/src/wal: the LogEntry codec        *)
(* (entry.rs) and the Wal store (wal.rs): Wal::new with its recovery scan, *)
(* Wal::append and Wal::replay, over a byte-level file with a page cache   *)
(* that a crash may cut back to what was synced.                           *)
(***************************************************************************)
EXTENDS Integers, Sequences, FiniteSets, TLC

(***************************************************************************)
(* Bounds of the model.                                                    *)
(***************************************************************************)
\* number of write attempts (complete or torn) the file may hold
MaxChunks == 2
\* number of environment faults (failed write, failed sync, crash) in a run
MaxFaults == 2
\* number of records of a file drawn for the scan/decode specification
MaxRecs == 2

(***************************************************************************)
(* u64 values.  TLC integers are 32 bits wide, so a u64 is kept as four    *)
(* 16-bit limbs, least significant first; the byte conversions below are   *)
(* the little-endian ones of byteorder.                                    *)
(***************************************************************************)
LimbBase == 65536

u64(n) == <<n % LimbBase, n \div LimbBase, 0, 0>>

U64_MAX == <<LimbBase - 1, LimbBase - 1, LimbBase - 1, LimbBase - 1>>

\* u64 + 1 (wrapping; the scan only ever adds 1 to an index it has counted up to)
add_one(u) ==
    IF u[1] < LimbBase - 1 THEN <<u[1] + 1, u[2], u[3], u[4]>>
    ELSE IF u[2] < LimbBase - 1 THEN <<0, u[2] + 1, u[3], u[4]>>
    ELSE IF u[3] < LimbBase - 1 THEN <<0, 0, u[3] + 1, u[4]>>
    ELSE IF u[4] < LimbBase - 1 THEN <<0, 0, 0, u[4] + 1>>
    ELSE <<0, 0, 0, 0>>

\* a < b
lt_u64(a, b) ==
    \/ a[4] < b[4]
    \/ a[4] = b[4] /\ a[3] < b[3]
    \/ a[4] = b[4] /\ a[3] = b[3] /\ a[2] < b[2]
    \/ a[4] = b[4] /\ a[3] = b[3] /\ a[2] = b[2] /\ a[1] < b[1]

\* the value is below 2^31 and can be compared with a length of the model
fits_int(u) == u[3] = 0 /\ u[4] = 0 /\ u[2] < 32768

to_int(u) == u[1] + LimbBase * u[2]

\* the big-endian byte order, which entry.rs does not use
write_u64_be(u) ==
    << u[4] \div 256, u[4] % 256, u[3] \div 256, u[3] % 256,
       u[2] \div 256, u[2] % 256, u[1] \div 256, u[1] % 256 >>

\* buf.write_u64::<LittleEndian>(v)
write_u64_le(u) ==
    << u[1] % 256, u[1] \div 256, u[2] % 256, u[2] \div 256,
       u[3] % 256, u[3] \div 256, u[4] % 256, u[4] \div 256 >>

\* reader.read_u64::<LittleEndian>() on the 8 bytes at bytes[pos .. pos+7]
read_u64_le(bytes, pos) ==
    << bytes[pos]     + 256 * bytes[pos + 1],
       bytes[pos + 2] + 256 * bytes[pos + 3],
       bytes[pos + 4] + 256 * bytes[pos + 5],
       bytes[pos + 6] + 256 * bytes[pos + 7] >>

(***************************************************************************)
(* LogEntry and its codec (entry.rs).                                      *)
(***************************************************************************)
LogEntry(index, term, command) ==
    [index |-> index, term |-> term, command |-> command]

NoEntry == LogEntry(u64(0), u64(0), <<>>)

\* size of the three fixed fields
HeaderLen == 24

\* an encoding with the term before the index, which entry.rs does not produce
encode_term_first(e) ==
    write_u64_le(e.term) \o write_u64_le(e.index)
        \o write_u64_le(u64(Len(e.command))) \o e.command

\* LogEntry::encode
encode(e) ==
    write_u64_le(e.index) \o write_u64_le(e.term)
        \o write_u64_le(u64(Len(e.command))) \o e.command

\* vec![0u8; command_len]: a length above isize::MAX panics (capacity overflow)
exceeds_isize(u) == u[4] >= 32768

\* vec![0u8; command_len]: a request of 4 GiB or more may be refused by the allocator
may_fail_alloc(u) == u[3] # 0 \/ u[4] # 0

\* LogEntry::decode on a reader over `bytes` positioned at pos (1-based).
\* env.io: the device reads succeed; env.alloc: a huge buffer is granted.
\* kind "Ok" carries the entry and the position after the record.
decode(bytes, pos, env) ==
    LET avail == Len(bytes) - (pos - 1)
        fail(k) == [kind |-> k, entry |-> NoEntry, next |-> pos]
    IN  IF ~env.io THEN fail("Other")
        ELSE IF avail < HeaderLen THEN fail("UnexpectedEof")
        ELSE LET index == read_u64_le(bytes, pos)
                 term == read_u64_le(bytes, pos + 8)
                 command_len == read_u64_le(bytes, pos + 16)
             IN  IF exceeds_isize(command_len) THEN fail("Panic")
                 ELSE IF may_fail_alloc(command_len) /\ ~env.alloc THEN fail("Abort")
                 ELSE IF ~fits_int(command_len) \/ to_int(command_len) > avail - HeaderLen
                      THEN fail("UnexpectedEof")
                 ELSE LET n == to_int(command_len)
                      IN  [kind |-> "Ok",
                           entry |-> LogEntry(index, term,
                                        SubSeq(bytes, pos + HeaderLen, pos + HeaderLen + n - 1)),
                           next |-> pos + HeaderLen + n]

(***************************************************************************)
(* The two scans of wal.rs.                                                *)
(***************************************************************************)
\* scan_loop with the check weakened to "the index increases"
RECURSIVE scan_loop_increasing(_, _, _, _)
scan_loop_increasing(bytes, pos, last_index, env) ==
    LET d == decode(bytes, pos, env)
    IN  IF d.kind = "Ok"
        THEN IF ~lt_u64(last_index, d.entry.index)
             THEN [kind |-> "InvalidData", last_index |-> last_index]
             ELSE scan_loop_increasing(bytes, d.next, d.entry.index, env)
        ELSE IF d.kind = "UnexpectedEof"
        THEN [kind |-> "Ok", last_index |-> last_index]
        ELSE [kind |-> d.kind, last_index |-> last_index]

RECURSIVE scan_loop(_, _, _, _)
scan_loop(bytes, pos, last_index, env) ==
    LET d == decode(bytes, pos, env)
    IN  IF d.kind = "Ok"
        THEN IF d.entry.index # add_one(last_index)
             THEN [kind |-> "InvalidData", last_index |-> last_index]
             ELSE scan_loop(bytes, d.next, d.entry.index, env)
        ELSE IF d.kind = "UnexpectedEof"
        THEN [kind |-> "Ok", last_index |-> last_index]
        ELSE [kind |-> d.kind, last_index |-> last_index]

\* scan_last_index with the cursor started at 1
scan_last_index_from_one(bytes, env) == scan_loop(bytes, 1, u64(1), env)

\* Wal::scan_last_index: seek to 0, then the loop
scan_last_index(bytes, env) == scan_loop(bytes, 1, u64(0), env)

\* replay_loop with each entry put in front of the ones read before
RECURSIVE replay_loop_prepend(_, _, _, _)
replay_loop_prepend(bytes, pos, entries, env) ==
    LET d == decode(bytes, pos, env)
    IN  IF d.kind = "Ok"
        THEN replay_loop_prepend(bytes, d.next, <<d.entry>> \o entries, env)
        ELSE IF d.kind = "UnexpectedEof"
        THEN [kind |-> "Ok", entries |-> entries]
        ELSE [kind |-> d.kind, entries |-> <<>>]

RECURSIVE replay_loop(_, _, _, _)
replay_loop(bytes, pos, entries, env) ==
    LET d == decode(bytes, pos, env)
    IN  IF d.kind = "Ok"
        THEN replay_loop(bytes, d.next, Append(entries, d.entry), env)
        ELSE IF d.kind = "UnexpectedEof"
        THEN [kind |-> "Ok", entries |-> entries]
        ELSE [kind |-> d.kind, entries |-> <<>>]

\* the body of Wal::replay over the file contents
replay(bytes, env) == replay_loop(bytes, 1, <<>>, env)

(***************************************************************************)
(* Inputs of the model.                                                    *)
(***************************************************************************)
Terms == {u64(1), u64(2)}

Commands == {<<>>, <<7, 200>>}

\* byte counts at which a write is torn: inside the header, at the end of
\* the header, inside the payload
TornAt == {10, 24, 25}

\* what the environment does to one scan: device reads and a huge allocation
Envs == [io : BOOLEAN, alloc : BOOLEAN]

EnvOk == [io |-> TRUE, alloc |-> TRUE]

(***************************************************************************)
(* State.                                                                  *)
(*   exists  the path names a file                                         *)
(*   file    the bytes of the file as the process reads them               *)
(*   synced  length of the prefix of file that is on stable storage        *)
(*   wal     the Wal value the caller holds (open = there is one)          *)
(*   off     the offset of the open file of wal, which its clones share    *)
(*   race    the calls in progress, for the step-by-step specification     *)
(*   result  what the last call returned (pos, consumed: the offsets at    *)
(*           which a decode started and stopped)                           *)
(* History:                                                                *)
(*   chunks  the write attempts that make up file: entry and bytes present *)
(*   acked   the entries whose append returned Ok, in order                *)
(*   snap    last_index and replay() of the store when it was dropped, kept *)
(*           until the file is written again                               *)
(*   openedAt  the values of Len(acked) at which a Wal::new succeeded      *)
(*   faults  number of faults so far                                       *)
(***************************************************************************)
VARIABLES exists, file, synced, wal, off, race, result, chunks, acked, snap, openedAt, faults

vars == <<exists, file, synced, wal, off, race, result, chunks, acked, snap, openedAt, faults>>

NoWal == [open |-> FALSE, last_index |-> u64(0)]

Wal(last_index) == [open |-> TRUE, last_index |-> last_index]

\* the threads that may call replay
Threads == {1, 2}

\* a thread that has not called replay
IdleReplay ==
    [pc |-> "idle", shared |-> FALSE, roff |-> 0, stream |-> <<>>, kind |-> "Ok",
     entries |-> <<>>, before |-> <<>>, alone |-> <<>>, quiet |-> TRUE]

\* no append is running
IdleAppend == [pc |-> "idle", entry |-> NoEntry, outcome |-> "ok", k |-> 0]

\* no call is in progress
NoRace == [append |-> IdleAppend, replays |-> [t \in Threads |-> IdleReplay]]

NoSnap == [valid |-> FALSE, last_index |-> u64(0), entries |-> <<>>]

Res(op, kind) ==
    [op |-> op, kind |-> kind, last_index |-> u64(0),
     entries |-> <<>>, entry |-> NoEntry, created |-> FALSE, repeated |-> FALSE,
     pos |-> 0, consumed |-> 0]

\* the bytes of one write attempt
chunk_bytes(c) == SubSeq(encode(c.e), 1, c.n)

RECURSIVE chunks_bytes(_)
chunks_bytes(cs) ==
    IF cs = <<>> THEN <<>> ELSE chunk_bytes(Head(cs)) \o chunks_bytes(Tail(cs))

\* the write attempts that remain when only the first d bytes survive
RECURSIVE cut_chunks(_, _)
cut_chunks(cs, d) ==
    IF cs = <<>> \/ d = 0 THEN <<>>
    ELSE IF d >= Head(cs).n THEN <<Head(cs)>> \o cut_chunks(Tail(cs), d - Head(cs).n)
    ELSE <<[Head(cs) EXCEPT !.n = d]>>

complete(c) == c.n = Len(encode(c.e))

Init ==
    /\ exists = FALSE
    /\ file = <<>>
    /\ synced = 0
    /\ wal = NoWal
    /\ off = 0
    /\ race = NoRace
    /\ result = Res("none", "Ok")
    /\ chunks = <<>>
    /\ acked = <<>>
    /\ snap = NoSnap
    /\ openedAt = {}
    /\ faults = 0

\* Wal::new that does not use what the scan returned
WalNew_zero(env) ==
    /\ ~wal.open
    /\ LET r == scan_last_index(file, env)
       IN  /\ wal' = IF r.kind = "Ok" THEN Wal(u64(0)) ELSE NoWal
           /\ result' = [Res("new", r.kind) EXCEPT
                            !.last_index = r.last_index, !.created = ~exists]
           /\ openedAt' = IF r.kind = "Ok" THEN openedAt \cup {Len(acked)} ELSE openedAt
           /\ off' = IF r.kind = "Ok" THEN Len(file) ELSE 0
    /\ exists' = TRUE
    /\ UNCHANGED <<file, synced, race, chunks, acked, snap, faults>>

(***************************************************************************)
(* Wal::new: open (create, append, read), then the recovery scan.          *)
(***************************************************************************)
WalNew(env) ==
    /\ ~wal.open
    /\ LET r == scan_last_index(file, env)
       IN  /\ wal' = IF r.kind = "Ok" THEN Wal(r.last_index) ELSE NoWal
           /\ result' = [Res("new", r.kind) EXCEPT
                            !.last_index = r.last_index, !.created = ~exists]
           /\ openedAt' = IF r.kind = "Ok" THEN openedAt \cup {Len(acked)} ELSE openedAt
           /\ off' = IF r.kind = "Ok" THEN Len(file) ELSE 0
    /\ exists' = TRUE
    /\ UNCHANGED <<file, synced, race, chunks, acked, snap, faults>>

\* a write at the offset of the handle, as on a file opened without append
write_at_offset(bytes, offset, buf) ==
    SubSeq(bytes, 1, offset) \o buf
        \o SubSeq(bytes, offset + Len(buf) + 1, Len(bytes))

\* write_all on the file opened with append(true): the bytes go to the end
\* of the file, wherever the offset of the handle is
write_append(bytes, offset, buf) == bytes \o buf

\* Wal::append that moves the cursor once the write is done, before the sync
append_eager(entry, outcome, k) ==
    /\ wal.open
    /\ Len(chunks) < MaxChunks
    /\ LET encoded == encode(entry)
           written == IF outcome = "write" THEN SubSeq(encoded, 1, k) ELSE encoded
       IN  /\ outcome = "write" => k < Len(encoded)
           /\ outcome # "ok" => faults < MaxFaults
           /\ file' = write_append(file, off, written)
           /\ chunks' = IF written = <<>> THEN chunks
                        ELSE Append(chunks, [e |-> entry, n |-> Len(written)])
           /\ off' = IF written = <<>> THEN off ELSE Len(file')
           /\ synced' = IF outcome = "ok" THEN Len(file') ELSE synced
           /\ wal' = IF outcome # "write" THEN [wal EXCEPT !.last_index = entry.index] ELSE wal
           /\ acked' = IF outcome = "ok" THEN Append(acked, entry) ELSE acked
           /\ faults' = IF outcome = "ok" THEN faults ELSE faults + 1
           /\ result' = [Res("append", IF outcome = "ok" THEN "Ok"
                                          ELSE IF outcome = "write" THEN "WriteFailed"
                                          ELSE "SyncFailed") EXCEPT
                            !.entry = entry, !.last_index = wal.last_index,
                            !.pos = off]
    /\ snap' = NoSnap
    /\ UNCHANGED <<exists, race, openedAt>>

(***************************************************************************)
(* Wal::append(entry).  outcome "ok": write_all and sync_data succeed;     *)
(* "write": write_all fails after k bytes; "sync": sync_data fails.        *)
(***************************************************************************)
append(entry, outcome, k) ==
    /\ wal.open
    /\ Len(chunks) < MaxChunks
    /\ LET encoded == encode(entry)
           written == IF outcome = "write" THEN SubSeq(encoded, 1, k) ELSE encoded
       IN  /\ outcome = "write" => k < Len(encoded)
           /\ outcome # "ok" => faults < MaxFaults
           /\ file' = write_append(file, off, written)
           /\ chunks' = IF written = <<>> THEN chunks
                        ELSE Append(chunks, [e |-> entry, n |-> Len(written)])
           /\ off' = IF written = <<>> THEN off ELSE Len(file')
           /\ synced' = IF outcome = "ok" THEN Len(file') ELSE synced
           /\ wal' = IF outcome = "ok" THEN [wal EXCEPT !.last_index = entry.index] ELSE wal
           /\ acked' = IF outcome = "ok" THEN Append(acked, entry) ELSE acked
           /\ faults' = IF outcome = "ok" THEN faults ELSE faults + 1
           /\ result' = [Res("append", IF outcome = "ok" THEN "Ok"
                                          ELSE IF outcome = "write" THEN "WriteFailed"
                                          ELSE "SyncFailed") EXCEPT
                            !.entry = entry, !.last_index = wal.last_index,
                            !.pos = off]
    /\ snap' = NoSnap
    /\ UNCHANGED <<exists, race, openedAt>>

\* the caller of the contract: the next entry has index last_index + 1
AppendNext ==
    \E term \in Terms, command \in Commands,
       outcome \in {"ok", "write", "sync"}, k \in TornAt \cup {0} :
        /\ outcome # "write" => k = 0
        /\ append(LogEntry(add_one(wal.last_index), term, command), outcome, k)

\* Wal::replay that sets the cursor from what it read, as the scan does
WalReplay_setcursor(env) ==
    /\ wal.open
    /\ LET r == replay(file, env)
       IN  /\ result' = [Res("replay", r.kind) EXCEPT
                            !.entries = r.entries, !.last_index = wal.last_index,
                            !.repeated = (result.op = "replay")]
           /\ wal' = IF r.kind \in {"Panic", "Abort"} THEN NoWal
                     ELSE IF r.kind = "Ok" /\ r.entries # <<>>
                     THEN [wal EXCEPT !.last_index = r.entries[Len(r.entries)].index]
                     ELSE wal
           /\ off' = IF r.kind = "Ok" THEN Len(file) ELSE 0
    /\ UNCHANGED <<exists, file, synced, race, chunks, acked, snap, openedAt, faults>>

(***************************************************************************)
(* Wal::replay.  A panic or an abort inside decode ends the process.       *)
(***************************************************************************)
WalReplay(env) ==
    /\ wal.open
    /\ LET r == replay(file, env)
       IN  /\ result' = [Res("replay", r.kind) EXCEPT
                            !.entries = r.entries, !.last_index = wal.last_index,
                            !.repeated = (result.op = "replay")]
           /\ wal' = IF r.kind \in {"Panic", "Abort"} THEN NoWal ELSE wal
           /\ off' = IF r.kind = "Ok" THEN Len(file) ELSE 0
    /\ UNCHANGED <<exists, file, synced, race, chunks, acked, snap, openedAt, faults>>

(***************************************************************************)
(* The Wal value is dropped (the file is closed, nothing is synced).       *)
(***************************************************************************)
WalDrop ==
    /\ wal.open
    /\ wal' = NoWal
    /\ snap' = [valid |-> TRUE, last_index |-> wal.last_index,
                entries |-> replay(file, EnvOk).entries]
    /\ off' = 0
    /\ result' = Res("drop", "Ok")
    /\ UNCHANGED <<exists, file, synced, race, chunks, acked, openedAt, faults>>

(***************************************************************************)
(* Crash: the process ends and of the bytes not yet synced only a prefix   *)
(* of d bytes in all survives.                                             *)
(***************************************************************************)
Crash ==
    /\ exists
    /\ faults < MaxFaults
    /\ \E d \in synced .. Len(file) :
        LET cs == cut_chunks(chunks, d)
        IN  /\ \/ d = synced
               \/ d = Len(file)
               \/ (cs # <<>> /\ cs[Len(cs)].n \in TornAt)
            /\ file' = SubSeq(file, 1, d)
            /\ chunks' = cs
            /\ synced' = d
    /\ wal' = NoWal
    /\ snap' = NoSnap
    /\ faults' = faults + 1
    /\ off' = 0
    /\ result' = Res("crash", "Ok")
    /\ UNCHANGED <<exists, race, acked, openedAt>>

Next ==
    \/ \E env \in Envs : WalNew(env)
    \/ AppendNext
    \/ \E env \in Envs : WalReplay(env)
    \/ WalDrop
    \/ Crash

Spec == Init /\ [][Next]_vars

\* the history variables describe the file
ChunksAreFile == file = chunks_bytes(chunks) /\ synced <= Len(file)

(***************************************************************************)
(* Files for the recovery scan and the codec taken alone: up to MaxRecs    *)
(* records of any index written back to back by encode (as the tests of    *)
(* scan_last_index write them), the last one possibly cut at any byte.     *)
(***************************************************************************)
ScanIndexes == {u64(0), u64(1), u64(2), u64(3), U64_MAX}

ScanEntries ==
    {LogEntry(i, u64(2), c) : i \in ScanIndexes, c \in Commands}

RECURSIVE CompleteFiles(_)
CompleteFiles(n) ==
    IF n = 0 THEN {<<>>}
    ELSE {Append(cs, [e |-> e, n |-> Len(encode(e))]) :
            cs \in CompleteFiles(n - 1), e \in ScanEntries}

\* the last write: none, or a record of which the first k bytes are there
LastChunks ==
    {<<>>} \cup UNION {{<<[e |-> e, n |-> k]>> : k \in 1 .. Len(encode(e))} : e \in ScanEntries}

InitScan ==
    /\ exists = TRUE
    /\ \E n \in 0 .. MaxRecs - 1 : \E cs \in CompleteFiles(n) : \E last \in LastChunks :
            chunks = cs \o last
    /\ file = chunks_bytes(chunks)
    /\ synced = Len(file)
    /\ wal = NoWal
    /\ off = 0
    /\ race = NoRace
    /\ result = Res("none", "Ok")
    /\ acked = <<>>
    /\ snap = NoSnap
    /\ openedAt = {}
    /\ faults = 0

\* LogEntry::decode on a cursor over the bytes of the file, from its start
Decode(env) ==
    /\ LET d == decode(file, 1, env)
       IN  result' = [Res("decode", d.kind) EXCEPT
                        !.entry = d.entry, !.consumed = d.next - 1]
    /\ UNCHANGED <<exists, file, synced, wal, off, race, chunks, acked, snap, openedAt, faults>>

NextScan ==
    \/ \E env \in Envs : WalNew(env)
    \/ \E env \in Envs : WalReplay(env)
    \/ \E env \in Envs : Decode(env)

SpecScan == InitScan /\ [][NextScan]_vars

(***************************************************************************)
(* Vocabulary of the properties.                                           *)
(***************************************************************************)
\* every write attempt in the file is a complete record
AllComplete == \A i \in 1 .. Len(chunks) : complete(chunks[i])

\* the file holds exactly the records of the appends that returned Ok
AllAcked ==
    /\ Len(chunks) = Len(acked)
    /\ \A i \in 1 .. Len(chunks) : complete(chunks[i]) /\ chunks[i].e = acked[i]

\* the complete records of the file, in file order
CompleteRecords == SelectSeq(chunks, complete)

\* the last write attempt has its whole header but not its whole payload
TruncatedPayloadTail ==
    /\ chunks # <<>>
    /\ \A i \in 1 .. Len(chunks) - 1 : complete(chunks[i])
    /\ chunks[Len(chunks)].n >= HeaderLen
    /\ ~complete(chunks[Len(chunks)])

\* the call met no device error
NoDeviceError == result.kind # "Other"

Occurs(e, entries) == \E j \in 1 .. Len(entries) : entries[j] = e

(***************************************************************************)
(* C1.  Durability: with a caller that always appends index last_index+1,  *)
(* every entry whose append returned Ok is recovered by the next Wal::new  *)
(* after a crash: the open succeeds, last_index is at least the entry's    *)
(* index and replay() holds the entry unchanged; whatever appends failed   *)
(* or were torn before.                                                    *)
(***************************************************************************)
C1_Durability ==
    (result.op = "new" /\ NoDeviceError /\ ~snap.valid) =>
        /\ result.kind = "Ok"
        /\ \A i \in 1 .. Len(acked) :
            /\ ~lt_u64(wal.last_index, acked[i].index)
            /\ Occurs(acked[i], replay(file, EnvOk).entries)

(***************************************************************************)
(* C2.  Append monotonicity: on a log opened empty, after the appends of   *)
(* indices 1..N all returned Ok, last_index = N and replay() returns       *)
(* exactly the appended entries, in order, fields unchanged.               *)
(***************************************************************************)
C2_AppendMonotonicity ==
    (wal.open /\ AllAcked /\ openedAt = {0}) =>
        /\ wal.last_index = u64(Len(acked))
        /\ \A i \in 1 .. Len(acked) : acked[i].index = u64(i)
        /\ (result.op = "replay" /\ NoDeviceError) =>
                result.kind = "Ok" /\ result.entries = acked

C2_Witness ==
    /\ result.op = "replay" /\ result.kind = "Ok"
    /\ wal.open /\ AllAcked /\ openedAt = {0}
    /\ Len(acked) = MaxChunks
    /\ acked[1].term # acked[2].term /\ acked[1].command # acked[2].command

(***************************************************************************)
(* C3.  Persistence across reopen: when every append so far returned Ok,   *)
(* Wal::new after a drop yields the last_index and the replay() contents   *)
(* of the dropped store, and a replay in any later session returns the     *)
(* entries of all sessions in order.                                       *)
(***************************************************************************)
C3_PersistenceAcrossReopen ==
    /\ (result.op = "new" /\ NoDeviceError /\ AllAcked /\ snap.valid) =>
            /\ result.kind = "Ok" /\ wal.open
            /\ wal.last_index = snap.last_index
            /\ replay(file, EnvOk).entries = snap.entries
            /\ snap.entries = acked
    /\ (result.op = "replay" /\ NoDeviceError /\ AllAcked) =>
            result.kind = "Ok" /\ result.entries = acked /\ wal.last_index = u64(Len(acked))

\* a third open, after two sessions that each appended an entry
C3_Witness ==
    /\ result.op = "new" /\ result.kind = "Ok" /\ snap.valid /\ AllAcked
    /\ Len(acked) = 2 /\ openedAt = {0, 1, 2}

(***************************************************************************)
(* C4.  Sequencing violation: on a file of complete records, Wal::new      *)
(* fails with the 'Log entries are not sequential' error (InvalidData) and *)
(* returns no Wal when some k-th record has an index other than k, and     *)
(* succeeds with last_index = number of records when every k-th has k.     *)
(***************************************************************************)
C4_SequencingViolation ==
    (result.op = "new" /\ NoDeviceError /\ AllComplete) =>
        IF \A k \in 1 .. Len(chunks) : chunks[k].e.index = u64(k)
        THEN result.kind = "Ok" /\ wal.open /\ wal.last_index = u64(Len(chunks))
        ELSE result.kind = "InvalidData" /\ ~wal.open

\* the file of the test: indices 1, 3
C4_Witness ==
    /\ result.op = "new" /\ result.kind = "InvalidData" /\ AllComplete
    /\ Len(chunks) = 2
    /\ chunks[1].e.index = u64(1) /\ chunks[2].e.index = u64(3)

(***************************************************************************)
(* C5.  Truncated final record is fatal at open: on a file whose last      *)
(* record has its 24 header bytes but fewer payload bytes than it          *)
(* declares, Wal::new fails; it never succeeds with the last_index of the  *)
(* record before.                                                          *)
(***************************************************************************)
C5_TruncatedTailFatal ==
    (result.op = "new" /\ TruncatedPayloadTail) =>
        result.kind # "Ok" /\ ~wal.open

(***************************************************************************)
(* C6.  Decode tells a clean end of log from a truncated payload: on a     *)
(* stream shorter than the 24 header bytes it returns UnexpectedEof; on a  *)
(* complete header followed by fewer payload bytes than declared it        *)
(* returns an error that is not UnexpectedEof.                             *)
(***************************************************************************)
C6_DecodeDistinguishes ==
    (result.op = "decode" /\ NoDeviceError) =>
        /\ Len(file) < HeaderLen => result.kind = "UnexpectedEof"
        /\ (Len(chunks) = 1 /\ TruncatedPayloadTail) =>
                result.kind \notin {"Ok", "UnexpectedEof"}

(***************************************************************************)
(* C7.  On-disk sequence invariant: in every reachable state the n-th      *)
(* complete record of the file has index n.                                *)
(***************************************************************************)
C7_OnDiskSequential ==
    \A n \in 1 .. Len(CompleteRecords) : CompleteRecords[n].e.index = u64(n)

(***************************************************************************)
(* C8.  Append failure leaves the cursor unchanged: an append whose write  *)
(* or sync failed returns the error with last_index as it was before the   *)
(* call; last_index is the entry's index only after both succeeded.        *)
(***************************************************************************)
C8_FailedAppendKeepsCursor ==
    result.op = "append" =>
        /\ wal.open
        /\ result.kind = "Ok" => wal.last_index = result.entry.index
        /\ result.kind # "Ok" =>
                /\ result.kind \in {"WriteFailed", "SyncFailed"}
                /\ wal.last_index = result.last_index
                /\ wal.last_index # result.entry.index

\* a sync that failed after an earlier append had moved the cursor
C8_Witness ==
    /\ result.op = "append" /\ result.kind = "SyncFailed"
    /\ acked # <<>> /\ wal.last_index = u64(Len(acked))
    /\ complete(chunks[Len(chunks)])

(***************************************************************************)
(* C9.  Idempotent replay: a replay leaves the file and last_index as they *)
(* were, and a replay that follows a replay returns the same entries.      *)
(***************************************************************************)
C9_ReplayIdempotent ==
    [][ (result'.op = "replay" /\ vars' # vars) =>
            /\ file' = file /\ synced' = synced
            /\ result'.kind \notin {"Panic", "Abort"} => wal' = wal
            /\ (result.op = "replay" /\ result.kind = "Ok" /\ result'.kind = "Ok") =>
                    result'.entries = result.entries ]_vars

\* a second replay in a row, on a log with a record the cursor does not count
C9_Witness ==
    /\ result.op = "replay" /\ result.repeated /\ result.kind = "Ok"
    /\ result.entries # <<>>
    /\ wal.open /\ wal.last_index = u64(0)

(***************************************************************************)
(* C10.  Empty log: Wal::new on a path without a file (it is created) or   *)
(* on a zero-length file succeeds with last_index = 0, and replay() on     *)
(* that store returns the empty sequence.                                  *)
(***************************************************************************)
C10_EmptyLog ==
    /\ (result.op = "new" /\ NoDeviceError /\ file = <<>>) =>
            result.kind = "Ok" /\ exists /\ wal.open /\ wal.last_index = u64(0)
    /\ (result.op = "replay" /\ NoDeviceError /\ file = <<>>) =>
            result.kind = "Ok" /\ result.entries = <<>> /\ wal.last_index = u64(0)

\* the zero-length file that an earlier Wal::new created is opened again
C10_Witness ==
    /\ result.op = "new" /\ result.kind = "Ok" /\ ~result.created
    /\ file = <<>> /\ wal.open /\ faults = 0

(***************************************************************************)
(* The codec alone: a buffer holding up to MaxRecs encoded entries, read   *)
(* by successive calls of LogEntry::decode on one reader.  The values are  *)
(* those of the tests of the repository.                                   *)
(***************************************************************************)
\* 0x1234567890ABCDEF
TestIndex == <<52719, 37035, 22136, 4660>>

\* 0xFEDCBA0987654321
TestTerm == <<17185, 34661, 47625, 65244>>

\* b"test"
TestCommand == <<116, 101, 115, 116>>

CodecEntries ==
    {LogEntry(i, t, c) : i \in {u64(0), TestIndex, U64_MAX},
                         t \in {TestTerm, U64_MAX},
                         c \in {<<>>, <<7, 200>>, TestCommand}}

RECURSIVE CodecFiles(_)
CodecFiles(n) ==
    IF n = 0 THEN {<<>>}
    ELSE {Append(cs, [e |-> e, n |-> Len(encode(e))]) :
            cs \in CodecFiles(n - 1), e \in CodecEntries}

InitCodec ==
    /\ exists = TRUE
    /\ \E n \in 0 .. MaxRecs : chunks \in CodecFiles(n)
    /\ file = chunks_bytes(chunks)
    /\ synced = Len(file)
    /\ wal = NoWal
    /\ off = 0
    /\ race = NoRace
    /\ result = Res("none", "Ok")
    /\ acked = <<>>
    /\ snap = NoSnap
    /\ openedAt = {}
    /\ faults = 0

\* LogEntry::decode again on the reader the last decode left
DecodeNext(env) ==
    /\ result.op = "decode"
    /\ result.kind = "Ok"
    /\ LET d == decode(file, result.consumed + 1, env)
       IN  result' = [Res("decode", d.kind) EXCEPT
                        !.entry = d.entry, !.pos = result.consumed,
                        !.consumed = d.next - 1]
    /\ UNCHANGED <<exists, file, synced, wal, off, race, chunks, acked, snap, openedAt, faults>>

NextCodec ==
    \/ \E env \in Envs : Decode(env)
    \/ \E env \in Envs : DecodeNext(env)

SpecCodec == InitCodec /\ [][NextCodec]_vars

\* the offset at which the k-th write starts
start_of(k) == Len(chunks_bytes(SubSeq(chunks, 1, k - 1)))

\* C11: a decode that starts where the encoding of an entry starts returns
\* that entry, index, term and command unchanged, and stops right after the
\* last byte of the encoding, so that the next decode starts at the next record.
C11_RoundTrip ==
    (result.op = "decode" /\ NoDeviceError) =>
        \A k \in 1 .. Len(chunks) :
            result.pos = start_of(k) =>
                /\ result.kind = "Ok"
                /\ result.entry = chunks[k].e
                /\ result.consumed = start_of(k + 1)

\* the second record, of index u64::MAX and empty command, has been decoded
\* after a first one of the test values
C11_Witness ==
    /\ result.op = "decode"
    /\ result.kind = "Ok"
    /\ result.pos = HeaderLen + 4
    /\ result.entry = LogEntry(U64_MAX, U64_MAX, <<>>)
    /\ chunks[1].e = LogEntry(TestIndex, TestTerm, TestCommand)
    /\ result.consumed = Len(file)

(***************************************************************************)
(* A caller that appends any index: append itself compares nothing.        *)
(***************************************************************************)
AnyIndexes(last_index) ==
    {last_index, add_one(last_index), add_one(add_one(last_index)), U64_MAX}

AppendAny ==
    \E index \in AnyIndexes(wal.last_index), command \in Commands,
       outcome \in {"ok", "sync"} :
        append(LogEntry(index, TestTerm, command), outcome, 0)

NextAny ==
    \/ \E env \in Envs : WalNew(env)
    \/ AppendAny
    \/ \E env \in Envs : WalReplay(env)
    \/ WalDrop

SpecAny == Init /\ [][NextAny]_vars

\* u64::to_le_bytes, byte by byte: byte i (from 1) is bits 8(i-1) .. 8i-1
to_le_bytes(u) ==
    [i \in 1 .. 8 |-> (u[(i + 1) \div 2] \div (IF i % 2 = 1 THEN 1 ELSE 256)) % 256]

\* no append has failed so far
NoFailedAppend == faults = 0

\* C13: the encoding of an entry is 24 + len(command) bytes: the index, the
\* term and the command length as little-endian u64, then the command; and
\* as long as every append has succeeded the file is exactly the
\* encodings of the appended entries one after another, in append order.
C13_OnDiskFormat ==
    /\ \A i \in 1 .. Len(acked) :
        LET e == acked[i]
            b == encode(e)
        IN  /\ Len(b) = HeaderLen + Len(e.command)
            /\ SubSeq(b, 1, 8) = to_le_bytes(e.index)
            /\ SubSeq(b, 9, 16) = to_le_bytes(e.term)
            /\ SubSeq(b, 17, 24) = to_le_bytes(u64(Len(e.command)))
            /\ SubSeq(b, 25, Len(b)) = e.command
    /\ NoFailedAppend =>
        /\ Len(chunks) = Len(acked)
        /\ \A i \in 1 .. Len(acked) :
            SubSeq(file, start_of(i) + 1, start_of(i + 1)) = encode(acked[i])
        /\ Len(file) = start_of(Len(acked) + 1)

\* two appends have succeeded, of which one with a command and one of index
\* u64::MAX, and none has failed
C13_Witness ==
    /\ NoFailedAppend
    /\ Len(acked) = 2
    /\ acked[1].command = <<7, 200>>
    /\ acked[2].index = U64_MAX
    /\ Len(file) = 2 * HeaderLen + 2 + Len(acked[2].command)

\* the step is an append that returned Ok
AppendOkStep == Len(acked') = Len(acked) + 1

\* C15: an append that returns Ok has written the record at the end of the
\* file and set last_index to the index of the entry, whatever that index;
\* and when the index was not last_index + 1, the Wal::new that next opens
\* the file fails with the sequencing error.
C15_NoAppendTimeCheck ==
    [][AppendOkStep =>
        LET entry == acked'[Len(acked')]
        IN  /\ file' = file \o encode(entry)
            /\ wal'.last_index = entry.index
            /\ entry.index # add_one(wal.last_index) =>
                    scan_last_index(file', EnvOk).kind = "InvalidData"]_vars

\* the same, for the appends made while no append has failed
C15_WithoutFailedAppend ==
    [][(AppendOkStep /\ NoFailedAppend) =>
        LET entry == acked'[Len(acked')]
        IN  /\ file' = file \o encode(entry)
            /\ wal'.last_index = entry.index
            /\ entry.index # add_one(wal.last_index) =>
                    scan_last_index(file', EnvOk).kind = "InvalidData"]_vars

\* a is the beginning of b
IsPrefix(a, b) == Len(a) <= Len(b) /\ SubSeq(b, 1, Len(a)) = a

\* C14: Wal::new, append (returning Ok or Err) and replay leave every byte
\* that is in the file where it is: the file before the call is a prefix of
\* the file after it, wherever the scans have left the offset of the handle.
C14_AppendOnly ==
    [][result'.op \in {"new", "append", "replay"} => IsPrefix(file, file')]_vars

\* an append has written its record behind the first one although a replay
\* had left the offset of the handle at 0, and the log was reopened since
C14_Witness ==
    /\ result.op = "append"
    /\ result.kind = "Ok"
    /\ result.pos = 0
    /\ Len(chunks) = 2
    /\ Len(file) = Len(encode(chunks[1].e)) + Len(encode(chunks[2].e))
    /\ Cardinality(openedAt) = 2

\* C16: while a Wal is open and no call is running, a replay returns as many
\* entries as last_index says, and last_index is the index of the last of
\* them (0 when there is none), also after an append that has failed.
C16_CursorMatchesDisk ==
    wal.open =>
        LET r == replay(file, EnvOk)
        IN  /\ r.kind = "Ok"
            /\ wal.last_index = u64(Len(r.entries))
            /\ r.entries # <<>> => r.entries[Len(r.entries)].index = wal.last_index

\* C18: the scan of Wal::new and replay end by returning a result or an
\* error (the sequencing error or a device error), and every decode that
\* lets their loop go on has consumed the 24 bytes of a header at least.
C18_ScansTerminate ==
    /\ result.op \in {"new", "replay"} => result.kind \in {"Ok", "InvalidData", "Other"}
    /\ \A pos \in 1 .. Len(file) + 1 :
        LET d == decode(file, pos, EnvOk)
        IN  d.kind = "Ok" => d.next >= pos + HeaderLen

(***************************************************************************)
(* The calls step by step.  A log of up to MaxRecs records is open; one    *)
(* append runs as encode, write_all (in one or two writes), sync_data,     *)
(* and each thread calls replay once: try_clone, seek, then the reads of   *)
(* the BufReader until one returns no byte.  A replay is either called on  *)
(* the Wal that appends (shared: its handle is a clone of the file of the  *)
(* Wal, and a clone has the offset of its original) or on another Wal      *)
(* opened on the same path, which has an offset of its own.  append takes  *)
(* &mut self: it never runs while a replay runs on the same Wal.           *)
(***************************************************************************)
\* the capacity of a BufReader
BufSize == 8192

RECURSIVE RaceLogs(_)
RaceLogs(n) ==
    IF n = 0 THEN {<<>>}
    ELSE {Append(cs, [e |-> e, n |-> Len(encode(e))]) :
            cs \in RaceLogs(n - 1),
            e \in {LogEntry(u64(n), u64(1), c) : c \in Commands}}

InitRace ==
    /\ exists = TRUE
    /\ \E n \in 0 .. MaxRecs : chunks \in RaceLogs(n)
    /\ file = chunks_bytes(chunks)
    /\ synced = Len(file)
    /\ wal = Wal(u64(Len(chunks)))
    /\ off = Len(file)
    /\ race = NoRace
    /\ result = [Res("new", "Ok") EXCEPT !.last_index = u64(Len(chunks))]
    /\ acked = [i \in 1 .. Len(chunks) |-> chunks[i].e]
    /\ snap = NoSnap
    /\ openedAt = {Len(chunks)}
    /\ faults = 0

\* the call is running
running(pc) == pc \notin {"idle", "done"}

\* append is called: encode; the outcome of its device calls is chosen here
AppendStart(command, outcome, k) ==
    /\ wal.open
    /\ race.append.pc = "idle"
    /\ \A t \in Threads : race.replays[t].shared => ~running(race.replays[t].pc)
    /\ k < HeaderLen + Len(command)
    /\ race' = [race EXCEPT
                  !.append = [pc |-> "write",
                              entry |-> LogEntry(add_one(wal.last_index), u64(1), command),
                              outcome |-> outcome, k |-> k],
                  !.replays = [t \in Threads |->
                                 IF running(race.replays[t].pc)
                                 THEN [race.replays[t] EXCEPT !.quiet = FALSE]
                                 ELSE race.replays[t]]]
    /\ UNCHANGED <<exists, file, synced, wal, off, result, chunks, acked, snap, openedAt, faults>>

\* write_all: the first write of k bytes (all of them when k = 0); with
\* outcome "write" the next write fails
AppendWrite ==
    /\ race.append.pc = "write"
    /\ LET a == race.append
           encoded == encode(a.entry)
           piece == IF a.k > 0 THEN SubSeq(encoded, 1, a.k)
                    ELSE IF a.outcome = "write" THEN <<>> ELSE encoded
       IN  /\ file' = write_append(file, off, piece)
           /\ off' = IF piece = <<>> THEN off ELSE Len(file')
           /\ chunks' = IF piece = <<>> THEN chunks
                        ELSE Append(chunks, [e |-> a.entry, n |-> Len(piece)])
           /\ race' = [race EXCEPT !.append.pc =
                          IF a.outcome = "write" THEN "done"
                          ELSE IF a.k > 0 THEN "rest" ELSE "sync"]
           /\ faults' = IF a.outcome = "write" THEN faults + 1 ELSE faults
           /\ result' = IF a.outcome = "write"
                        THEN [Res("append", "WriteFailed") EXCEPT
                                !.entry = a.entry, !.last_index = wal.last_index]
                        ELSE result
    /\ UNCHANGED <<exists, synced, wal, acked, snap, openedAt>>

\* write_all: the write of the bytes that the first write did not take
AppendRest ==
    /\ race.append.pc = "rest"
    /\ LET a == race.append
           encoded == encode(a.entry)
           piece == SubSeq(encoded, a.k + 1, Len(encoded))
       IN  /\ file' = write_append(file, off, piece)
           /\ off' = Len(file')
           /\ chunks' = [chunks EXCEPT ![Len(chunks)].n = Len(encoded)]
           /\ race' = [race EXCEPT !.append.pc = "sync"]
    /\ UNCHANGED <<exists, synced, wal, result, acked, snap, openedAt, faults>>

\* sync_data, then last_index = entry.index and Ok, or Err
AppendSync ==
    /\ race.append.pc = "sync"
    /\ LET a == race.append
           ok == a.outcome = "ok"
       IN  /\ synced' = IF ok THEN Len(file) ELSE synced
           /\ wal' = IF ok THEN [wal EXCEPT !.last_index = a.entry.index] ELSE wal
           /\ acked' = IF ok THEN Append(acked, a.entry) ELSE acked
           /\ faults' = IF ok THEN faults ELSE faults + 1
           /\ result' = [Res("append", IF ok THEN "Ok" ELSE "SyncFailed") EXCEPT
                            !.entry = a.entry, !.last_index = wal.last_index]
           /\ race' = [race EXCEPT !.append.pc = "done"]
    /\ UNCHANGED <<exists, file, off, chunks, snap, openedAt>>

\* replay is called by thread t: try_clone of the file of its Wal
ReplayStart(t, shared) ==
    /\ wal.open
    /\ race.replays[t].pc = "idle"
    /\ shared => ~running(race.append.pc)
    /\ race' = [race EXCEPT !.replays[t] =
                  [IdleReplay EXCEPT !.pc = "seek", !.shared = shared,
                                     !.roff = IF shared THEN 0 ELSE Len(file),
                                     !.before = acked,
                                     !.alone = replay(file, EnvOk).entries,
                                     !.quiet = ~running(race.append.pc)]]
    /\ UNCHANGED <<exists, file, synced, wal, off, result, chunks, acked, snap, openedAt, faults>>

\* file.seek(SeekFrom::Start(0)) on the clone
ReplaySeek(t) ==
    /\ race.replays[t].pc = "seek"
    /\ off' = IF race.replays[t].shared THEN 0 ELSE off
    /\ race' = [race EXCEPT !.replays[t].pc = "read", !.replays[t].roff = 0]
    /\ UNCHANGED <<exists, file, synced, wal, result, chunks, acked, snap, openedAt, faults>>

\* every handle reads at the offset of the file of the appending Wal
handle_offset_of_wal(th) == off

\* the offset at which the handle of a replay reads: a clone has the offset
\* of the file it was cloned from, a file opened by another Wal its own
handle_offset(th) == IF th.shared THEN off ELSE th.roff

\* a read of the BufReader at the offset of the handle; when it returns no
\* byte the decode that asked for it fails with UnexpectedEof and the loop
\* ends with what the bytes read so far decode to
ReplayRead(t) ==
    /\ race.replays[t].pc = "read"
    /\ LET th == race.replays[t]
           o == handle_offset(th)
           n == IF Len(file) - o < BufSize THEN Len(file) - o ELSE BufSize
           r == replay(th.stream, EnvOk)
       IN  IF n > 0
           THEN /\ race' = [race EXCEPT
                              !.replays[t].stream = th.stream \o SubSeq(file, o + 1, o + n),
                              !.replays[t].roff = IF th.shared THEN 0 ELSE o + n]
                /\ off' = IF th.shared THEN o + n ELSE off
                /\ UNCHANGED result
           ELSE /\ race' = [race EXCEPT !.replays[t].pc = "done",
                                        !.replays[t].stream = <<>>,
                                        !.replays[t].kind = r.kind,
                                        !.replays[t].entries = r.entries]
                /\ result' = [Res("replay", r.kind) EXCEPT
                                !.entries = r.entries, !.last_index = wal.last_index]
                /\ UNCHANGED off
    /\ UNCHANGED <<exists, file, synced, wal, chunks, acked, snap, openedAt, faults>>

NextRace ==
    \/ \E command \in Commands, outcome \in {"ok", "write", "sync"}, k \in TornAt \cup {0} :
            AppendStart(command, outcome, k)
    \/ AppendWrite
    \/ AppendRest
    \/ AppendSync
    \/ \E t \in Threads, shared \in BOOLEAN : ReplayStart(t, shared)
    \/ \E t \in Threads : ReplaySeek(t)
    \/ \E t \in Threads : ReplayRead(t)

SpecRace == InitRace /\ [][NextRace]_vars

\* C12: a replay during which the append was in flight returns Ok with the
\* entries acknowledged before it started, in their order and unchanged,
\* followed or not by the entry of that append, and nothing else.
C12_ReplayRacingAppend ==
    \A t \in Threads :
        LET th == race.replays[t]
        IN  (th.pc = "done" /\ ~th.quiet) =>
                /\ th.kind = "Ok"
                /\ \/ th.entries = th.before
                   \/ th.entries = Append(th.before, race.append.entry)

\* a replay has returned the acknowledged entry and the entry in flight
\* while the append, whose write_all took two writes, has not returned yet
C12_Witness ==
    \E t \in Threads :
        LET th == race.replays[t]
        IN  /\ th.pc = "done"
            /\ ~th.quiet
            /\ th.before # <<>>
            /\ th.entries = Append(th.before, race.append.entry)
            /\ race.append.pc = "sync"
            /\ race.append.k > 0

\* a replay that overlapped the append has returned without its entry
C12_WitnessUnobserved ==
    \E t \in Threads :
        LET th == race.replays[t]
        IN  /\ th.pc = "done"
            /\ ~th.quiet
            /\ th.before # <<>>
            /\ th.entries = th.before
            /\ acked = Append(th.before, race.append.entry)

\* C17: a replay on the Wal during which no append ran returns what a
\* replay running alone returns, whatever other replays run on that Wal.
C17_ConcurrentReplays ==
    \A t \in Threads :
        LET th == race.replays[t]
        IN  (th.pc = "done" /\ th.shared /\ th.quiet) =>
                th.kind = "Ok" /\ th.entries = th.alone
====
